---- MODULE Spec2Model ----
(***************************************************************************)
(* A model of the storage layer of the circadian rhythm tracker            *)
(* (src/pages/data_handler.py, class DataHandler) and of the boundary      *)
(* code that writes to it.                                                 *)
(*                                                                         *)
(* The backing CSV file is modelled by its text: a header line and one     *)
(* line of cells per record.  A text cell is a sequence of one-character   *)
(* strings.  Every DataHandler operation re-reads the file with            *)
(* pandas.read_csv and writes it back with DataFrame.to_csv; both          *)
(* conversions are modelled (read_csv, to_csv below), because what an      *)
(* operation compares and writes are the values read_csv produced, not     *)
(* the text that was written.                                              *)
(***************************************************************************)
EXTENDS Integers, Sequences, FiniteSets, TLC

(***************************************************************************)
(* Bounds of the model.                                                    *)
(***************************************************************************)
\* The largest number of records the file holds in the model.
MaxRows == 2

(***************************************************************************)
(* Text cells and the values pandas makes of them.                         *)
(***************************************************************************)
DigitChars == <<"0", "1", "2", "3", "4", "5", "6", "7", "8", "9">>

Digits == { DigitChars[d] : d \in 1..Len(DigitChars) }

IsDigit(c) == c \in Digits

DigitValue(c) == (CHOOSE d \in 1..Len(DigitChars) : DigitChars[d] = c) - 1

\* A cell read_csv's parser takes for an integer: a non-empty run of digits.
IsIntText(s) == Len(s) > 0 /\ \A i \in 1..Len(s) : IsDigit(s[i])

RECURSIVE ParseInt(_)
ParseInt(s) ==
    IF s = <<>> THEN 0
    ELSE 10 * ParseInt(SubSeq(s, 1, Len(s) - 1)) + DigitValue(s[Len(s)])

RECURSIVE FormatInt(_)
FormatInt(n) ==
    IF n < 10 THEN <<DigitChars[n + 1]>>
    ELSE FormatInt(n \div 10) \o <<DigitChars[(n % 10) + 1]>>

\* Cells read_csv reads as a missing value (a part of its default na_values).
NaValues == { <<>>, <<"N", "A">>, <<"N", "a", "N">>, <<"n", "a", "n">>,
              <<"N", "U", "L", "L">>, <<"n", "u", "l", "l">> }

\* The value of a cell of a text column once loaded: a Python str, a number
\* (int64, or float64 when the column also holds missing values) or NaN.
StrV(s) == [k |-> "str", s |-> s, n |-> 0]
IntV(n) == [k |-> "int", s |-> <<>>, n |-> n]
FloatV(n) == [k |-> "float", s |-> <<>>, n |-> n]
NaN == [k |-> "nan", s |-> <<>>, n |-> 0]

\* Python's == on two such values: NaN equals nothing, a str never equals a
\* number, an int equals the float of the same value.
PyEq(a, b) ==
    /\ a.k # "nan"
    /\ b.k # "nan"
    /\ IF a.k = "str" \/ b.k = "str" THEN a = b ELSE a.n = b.n

\* read_csv infers one dtype per column from all of its cells: a column whose
\* present cells are all integers is numeric, any other column is object and
\* keeps each present cell as the str it is.
ColumnIsNumeric(cells) ==
    /\ \E i \in 1..Len(cells) : cells[i] \notin NaValues
    /\ \A i \in 1..Len(cells) : cells[i] \notin NaValues => IsIntText(cells[i])

ReadCell(cells, i) ==
    IF cells[i] \in NaValues THEN NaN
    ELSE IF ColumnIsNumeric(cells)
         THEN IF \E j \in 1..Len(cells) : cells[j] \in NaValues
              THEN FloatV(ParseInt(cells[i]))
              ELSE IntV(ParseInt(cells[i]))
         ELSE StrV(cells[i])

\* to_csv writes a str as it is, an int in decimal, a float by its repr and
\* a missing value as the empty cell.
WriteCell(v) ==
    CASE v.k = "str" -> v.s
      [] v.k = "int" -> FormatInt(v.n)
      [] v.k = "float" -> FormatInt(v.n) \o <<".", "0">>
      [] OTHER -> <<>>

(***************************************************************************)
(* The data frame and the file.                                            *)
(*                                                                         *)
(* A timestamp cell 'YYYY-MM-DD HH:MM:SS' is modelled by the tuple         *)
(* <<year, month, day, hour>> it spells: such a cell is neither a number   *)
(* nor a missing value, so read_csv keeps the column as str and to_csv     *)
(* writes the same text back.  The four metric columns hold integers in    *)
(* every modelled input and no missing value, so they are int64 columns:   *)
(* the decimal text to_csv writes is the integer read_csv reads.           *)
(***************************************************************************)
columns == <<"person_id", "timestamp", "heart_rate", "systolic_bp",
             "diastolic_bp", "energy_level", "notes">>

\* pd.DataFrame(columns=self.columns)
EmptyFrame == [columns |-> columns, rows |-> <<>>]

Column(rows, c) == [i \in 1..Len(rows) |-> rows[i][c]]

\* pd.read_csv(self.csv_file): the frame of the file's text.
read_csv(file) ==
    [columns |-> file.columns,
     rows |-> [i \in 1..Len(file.rows) |->
                 [file.rows[i] EXCEPT
                    !.person_id = ReadCell(Column(file.rows, "person_id"), i),
                    !.notes = ReadCell(Column(file.rows, "notes"), i)]]]

\* df.to_csv(self.csv_file, index=False): the text of a frame.
to_csv(df) ==
    [columns |-> df.columns,
     rows |-> [i \in 1..Len(df.rows) |->
                 [df.rows[i] EXCEPT
                    !.person_id = WriteCell(df.rows[i].person_id),
                    !.notes = WriteCell(df.rows[i].notes)]]]

\* DataFrame.empty
IsEmpty(df) == Len(df.rows) = 0

(***************************************************************************)
(* The inputs of the model.                                                *)
(***************************************************************************)
\* Person ids: a name, and an id made of digits only.
PersonIds == { <<"a", "l">>, <<"0", "7">> }

Timestamps == { <<2024, 1, 1, 8>>, <<2024, 1, 2, 8>> }

NotesTexts == { <<>>, <<"n">> }

\* The dictionaries the callers pass to add_entry: every field a Python
\* str or int.
Entries ==
    { [person_id |-> StrV(p), timestamp |-> t, heart_rate |-> 70,
       systolic_bp |-> 120, diastolic_bp |-> 80, energy_level |-> 5,
       notes |-> StrV(x)] :
        p \in PersonIds, t \in Timestamps, x \in NotesTexts }

\* The dictionaries passed to update_entry; "mood" is not a column.
Updates ==
    { [person_id |-> StrV(p)] : p \in PersonIds }
    \cup { [timestamp |-> t] : t \in Timestamps }
    \cup { [notes |-> StrV(<<"n">>), mood |-> 1] }

\* Positions passed to update_entry and delete_entry: negative, inside and
\* past the end of the frame.
Indexes == (0 - 1)..MaxRows

\* What a call meets: no failure, or an exception raised by the read or by
\* the write of the backing file.
Faults == { "none", "read", "write" }

NoEntry == [person_id |-> NaN]

NoUpdate == [mood |-> 0]

NoIndex == 0

NoPerson == <<>>

NoUpload == <<>>

\* None, as the value of an optional argument left out.
None == <<>>

NoDates == <<None, None>>

\* The empty dictionary.
NoStats == [key \in {} |-> 0]

NoVerdict == [valid |-> FALSE]

(***************************************************************************)
(* DataHandler.  An operation is a function of the text of the backing     *)
(* file, its arguments and the failure f the call meets; its result is     *)
(* the text of the file afterwards, the value returned and the failure     *)
(* met.  A failed read is caught inside load_data.  A failed write raises  *)
(* in to_csv before the file is touched and is caught by the operation's   *)
(* own handler.                                                            *)
(***************************************************************************)
Result(file, r, flt) == [csv_file |-> file, ret |-> r, fault |-> flt]

\* load_data: the frame of the file, or an empty frame when the read raised.
load_data(file, f) ==
    IF f = "read" THEN EmptyFrame ELSE read_csv(file)

\* The end of every mutating operation: df.to_csv(...) and return True, or
\* the exception of the write caught and return False.
Save(file, df, f) ==
    IF f = "write"
    THEN Result(file, FALSE, "write")
    ELSE Result(to_csv(df), TRUE, f)

\* An early return False, before any write.
Reject(file, f) == Result(file, FALSE, IF f = "read" THEN "read" ELSE "none")

\* The duplicate mask of add_entry, .any(): some row has the entry's
\* person_id and timestamp.
duplicate_mask(df, e) ==
    \E i \in 1..Len(df.rows) :
        /\ PyEq(df.rows[i].person_id, e.person_id)
        /\ df.rows[i].timestamp = e.timestamp

\* pd.concat([df, new_entry], ignore_index=True)
concat(df, e) == [df EXCEPT !.rows = Append(df.rows, e)]

add_entry(file, e, f) ==
    LET df == load_data(file, f)
    IN  IF ~IsEmpty(df) /\ duplicate_mask(df, e)
        THEN Reject(file, f)
        ELSE Save(file, concat(df, e), f)

\* The bounds check with its upper comparison off by one.
InvalidIndexPastEnd(i, df) == i < 0 \/ i > Len(df.rows)

\* index < 0 or index >= len(df)
InvalidIndex(i, df) == i < 0 \/ i >= Len(df.rows)

\* for key, value in updated_data.items():
\*     if key in df.columns: df.loc[index, key] = value
SetFields(df, i, u) ==
    LET cols == { df.columns[c] : c \in 1..Len(df.columns) }
        Updated(row) ==
            [c \in DOMAIN row |->
                IF c \in cols /\ c \in DOMAIN u THEN u[c] ELSE row[c]]
    IN  [df EXCEPT !.rows =
            [j \in 1..Len(df.rows) |->
                IF j = i + 1 THEN Updated(df.rows[j]) ELSE df.rows[j]]]

update_entry(file, i, u, f) ==
    LET df == load_data(file, f)
    IN  IF InvalidIndex(i, df)
        THEN Reject(file, f)
        ELSE Save(file, SetFields(df, i, u), f)

\* df.drop(index=index).reset_index(drop=True)
DropRow(df, i) ==
    [df EXCEPT !.rows =
        [j \in 1..(Len(df.rows) - 1) |->
            IF j <= i THEN df.rows[j] ELSE df.rows[j + 1]]]

delete_entry(file, i, f) ==
    LET df == load_data(file, f)
    IN  IF InvalidIndex(i, df)
        THEN Reject(file, f)
        ELSE Save(file, DropRow(df, i), f)

\* df[df['person_id'] != person_id]
OtherPeople(df, p) ==
    LET Keep(r) == ~PyEq(r.person_id, StrV(p))
    IN  [df EXCEPT !.rows = SelectSeq(df.rows, Keep)]

delete_person_data(file, p, f) ==
    Save(file, OtherPeople(load_data(file, f), p), f)

\* A clear that writes back the frame it loaded instead of an empty one.
clear_all_data_keeping(file, f) == Save(file, load_data(file, f), f)

\* clear_all_data does not read the file.
clear_all_data(file, f) == Save(file, EmptyFrame, f)

(***************************************************************************)
(* Validators (src/utils/validators.py).  An argument is a Python value    *)
(* in the representation above; None is the value of an absent argument.   *)
(* A verdict is the dictionary the function returns.                       *)
(***************************************************************************)
NoneV == [k |-> "none", s |-> <<>>, n |-> 0]

\* isinstance(v, (int, float)); NaN is a float.
IsNumber(v) == v.k \in {"int", "float", "nan"}

\* v < c and v > c on a number; every comparison with NaN is False.
Below(v, c) == v.k # "nan" /\ v.n < c
Above(v, c) == v.k # "nan" /\ v.n > c

\* The two bounds below with the equal value left out.
AtLeastStrict(v, c) == v.k # "nan" /\ v.n > c
AtMostStrict(v, c) == v.k # "nan" /\ v.n < c

\* v >= c and v <= c
AtLeast(v, c) == v.k # "nan" /\ v.n >= c
AtMost(v, c) == v.k # "nan" /\ v.n <= c

Invalid(msg) == [valid |-> FALSE, message |-> msg]
Valid(msg) == [valid |-> TRUE, message |-> msg]
ValidWithWarning(msg, w) == [valid |-> TRUE, message |-> msg, warning |-> w]

Whitespace == { " " }

\* str.strip()
RECURSIVE Strip(_)
Strip(s) ==
    IF s = <<>> THEN s
    ELSE IF Head(s) \in Whitespace THEN Strip(Tail(s))
    ELSE IF s[Len(s)] \in Whitespace THEN Strip(SubSeq(s, 1, Len(s) - 1))
    ELSE s

Letters ==
    { "a", "b", "c", "d", "e", "f", "g", "h", "i", "j", "k", "l", "m",
      "n", "o", "p", "q", "r", "s", "t", "u", "v", "w", "x", "y", "z",
      "A", "B", "C", "D", "E", "F", "G", "H", "I", "J", "K", "L", "M",
      "N", "O", "P", "Q", "R", "S", "T", "U", "V", "W", "X", "Y", "Z" }

\* re.match(r'^[a-zA-Z0-9_-]+$', s) on a stripped string
MatchesIdPattern(s) ==
    /\ Len(s) > 0
    /\ \A i \in 1..Len(s) : s[i] \in Letters \cup Digits \cup {"_", "-"}

MinIdLength == 2
MaxIdLength == 50

validate_person_id(v) ==
    IF v.k # "str" \/ v.s = <<>>
    THEN Invalid("Person ID is required and must be a string")
    ELSE LET id == Strip(v.s)
         IN  IF Len(id) < MinIdLength
             THEN Invalid("Person ID must be at least 2 characters long")
             ELSE IF Len(id) > MaxIdLength
             THEN Invalid("Person ID must be 50 characters or less")
             ELSE IF ~MatchesIdPattern(id)
             THEN Invalid("Person ID can only contain letters, numbers, underscores, and hyphens")
             ELSE Valid("Valid person ID")

MinHeartRate == 30
MaxHeartRate == 200

validate_heart_rate(v) ==
    IF ~IsNumber(v) THEN Invalid("Heart rate must be a number")
    ELSE IF Below(v, MinHeartRate) THEN Invalid("Heart rate too low (minimum 30 BPM)")
    ELSE IF Above(v, MaxHeartRate) THEN Invalid("Heart rate too high (maximum 200 BPM)")
    ELSE Valid("Valid heart rate")

MinSystolic == 70
MaxSystolic == 250
MinDiastolic == 40
MaxDiastolic == 150
LowSystolic == 90
LowDiastolic == 60
HighSystolic == 140
HighDiastolic == 90

\* diastolic >= systolic
NotBelow(d, s) == d.k # "nan" /\ s.k # "nan" /\ d.n >= s.n

validate_blood_pressure(sys, dia) ==
    IF ~IsNumber(sys) \/ ~IsNumber(dia)
    THEN Invalid("Blood pressure values must be numbers")
    ELSE IF Below(sys, MinSystolic)
    THEN Invalid("Systolic pressure too low (minimum 70 mmHg)")
    ELSE IF Above(sys, MaxSystolic)
    THEN Invalid("Systolic pressure too high (maximum 250 mmHg)")
    ELSE IF Below(dia, MinDiastolic)
    THEN Invalid("Diastolic pressure too low (minimum 40 mmHg)")
    ELSE IF Above(dia, MaxDiastolic)
    THEN Invalid("Diastolic pressure too high (maximum 150 mmHg)")
    ELSE IF NotBelow(dia, sys)
    THEN Invalid("Diastolic pressure must be lower than systolic pressure")
    ELSE IF Below(sys, LowSystolic) /\ Below(dia, LowDiastolic)
    THEN ValidWithWarning("Valid blood pressure (low normal)",
                          "Blood pressure is in the low range")
    ELSE IF AtLeast(sys, HighSystolic) \/ AtLeast(dia, HighDiastolic)
    THEN ValidWithWarning("Valid blood pressure (high)",
                          "Blood pressure is in the high range")
    ELSE Valid("Valid blood pressure")

MinEnergy == 1
MaxEnergy == 10

validate_energy_level(v) ==
    IF ~IsNumber(v) THEN Invalid("Energy level must be a number")
    ELSE IF Below(v, MinEnergy) THEN Invalid("Energy level must be at least 1")
    ELSE IF Above(v, MaxEnergy) THEN Invalid("Energy level must be at most 10")
    ELSE Valid("Valid energy level")

\* The composite with the blood pressure checked before the heart rate.
validate_health_metrics_bp_first(hr, sys, dia, energy) ==
    LET hr_validation == validate_heart_rate(hr)
        bp_validation == validate_blood_pressure(sys, dia)
        energy_validation == validate_energy_level(energy)
    IN  IF ~bp_validation.valid THEN bp_validation
        ELSE IF ~hr_validation.valid THEN hr_validation
        ELSE IF ~energy_validation.valid THEN energy_validation
        ELSE Valid("All health metrics are valid")

HighEnergy == 8
LowHeartRate == 60
LowEnergy == 3
HighHeartRate == 100

validate_health_metrics(hr, sys, dia, energy) ==
    LET hr_validation == validate_heart_rate(hr)
        bp_validation == validate_blood_pressure(sys, dia)
        energy_validation == validate_energy_level(energy)
        warnings ==
            (IF "warning" \in DOMAIN bp_validation
             THEN <<bp_validation.warning>> ELSE <<>>)
            \o (IF AtLeast(energy, HighEnergy) /\ Below(hr, LowHeartRate)
                THEN <<"High energy level with low heart rate - please verify readings">>
                ELSE <<>>)
            \o (IF AtMost(energy, LowEnergy) /\ Above(hr, HighHeartRate)
                THEN <<"Low energy with high heart rate - consider medical consultation">>
                ELSE <<>>)
    IN  IF ~hr_validation.valid THEN hr_validation
        ELSE IF ~bp_validation.valid THEN bp_validation
        ELSE IF ~energy_validation.valid THEN energy_validation
        ELSE IF warnings # <<>>
        THEN [valid |-> TRUE, message |-> "All health metrics are valid",
              warnings |-> warnings]
        ELSE Valid("All health metrics are valid")

\* a < b on two datetimes <<year, month, day, hour>>
Earlier(a, b) ==
    \E i \in 1..4 : a[i] < b[i] /\ \A j \in 1..(i - 1) : a[j] = b[j]

LookbackYears == 10

IsLeapYear(y) == y % 4 = 0 /\ (y % 100 # 0 \/ y % 400 = 0)

\* datetime(year, month, day) raises ValueError for a day the month lacks;
\* the month and day passed here are those of an existing date.
NoSuchDate(y, m, d) == m = 2 /\ d = 29 /\ ~IsLeapYear(y)

Raises(exc) == [raises |-> exc]

\* validate_timestamp at the current time now, on a timestamp in one of the
\* two accepted formats or a datetime: both are the tuple
\* <<year, month, day, hour>> here.
validate_timestamp(ts, now) ==
    IF Earlier(now, ts) THEN Invalid("Timestamp cannot be in the future")
    ELSE IF NoSuchDate(now[1] - LookbackYears, now[2], now[3])
    THEN Raises("ValueError")
    ELSE LET ten_years_ago == <<now[1] - LookbackYears, now[2], now[3], 0>>
         IN  IF Earlier(ts, ten_years_ago)
             THEN Invalid("Timestamp cannot be more than 10 years ago")
             ELSE [valid |-> TRUE, message |-> "Valid timestamp",
                   parsed_timestamp |-> ts]

\* The timestamp argument: a datetime object, or a text, given by the format
\* it is written in and the date and time it spells.
DatetimeV(t) == [k |-> "datetime", t |-> t]
TimestampText(format, t) == [k |-> "str", format |-> format, t |-> t]

SecondsFormat == "%Y-%m-%d %H:%M:%S"
MinutesFormat == "%Y-%m-%d %H:%M"

\* datetime.strptime(text, format): the instant, or ValueError for a text
\* in another format or spelling a date that does not exist.
strptime(text, format) ==
    IF text.format = format /\ ~NoSuchDate(text.t[1], text.t[2], text.t[3])
    THEN DatetimeV(text.t)
    ELSE Raises("ValueError")

\* validate_timestamp on any argument: the parsing, then the range checks.
validate_timestamp_input(v, now) ==
    IF v.k = "str"
    THEN IF strptime(v, SecondsFormat) # Raises("ValueError")
         THEN validate_timestamp(strptime(v, SecondsFormat).t, now)
         ELSE IF strptime(v, MinutesFormat) # Raises("ValueError")
         THEN validate_timestamp(strptime(v, MinutesFormat).t, now)
         ELSE Invalid("Invalid timestamp format. Use YYYY-MM-DD HH:MM:SS or YYYY-MM-DD HH:MM")
    ELSE IF v.k = "datetime" THEN validate_timestamp(v.t, now)
    ELSE Invalid("Timestamp must be a string or datetime object")

MaxNotesLength == 500

validate_notes(v) ==
    IF v = NoneV THEN Valid("Valid notes (empty)")
    ELSE IF v.k # "str" THEN Invalid("Notes must be a string")
    ELSE IF Len(v.s) > MaxNotesLength
    THEN Invalid("Notes must be 500 characters or less")
    ELSE Valid("Valid notes")

required_fields == <<"person_id", "timestamp", "heart_rate", "systolic_bp",
                     "diastolic_bp", "energy_level">>

\* f'Missing required field: {field}'
MissingFieldMessage(field) ==
    CASE field = "person_id" -> "Missing required field: person_id"
      [] field = "timestamp" -> "Missing required field: timestamp"
      [] field = "heart_rate" -> "Missing required field: heart_rate"
      [] field = "systolic_bp" -> "Missing required field: systolic_bp"
      [] field = "diastolic_bp" -> "Missing required field: diastolic_bp"
      [] field = "energy_level" -> "Missing required field: energy_level"

\* validate_entry_data on a dictionary, given by its keys and their values;
\* an exception of validate_timestamp passes through it.
validate_entry_data(entry, now) ==
    LET Absent(field) == field \notin DOMAIN entry
        missing == SelectSeq(required_fields, Absent)
    IN  IF missing # <<>> THEN Invalid(MissingFieldMessage(missing[1]))
        ELSE
        LET person_validation == validate_person_id(entry.person_id)
            timestamp_validation == validate_timestamp_input(entry.timestamp, now)
            metrics_validation ==
                validate_health_metrics(entry.heart_rate, entry.systolic_bp,
                                        entry.diastolic_bp, entry.energy_level)
        IN  IF ~person_validation.valid THEN person_validation
            ELSE IF "raises" \in DOMAIN timestamp_validation
            THEN timestamp_validation
            ELSE IF ~timestamp_validation.valid THEN timestamp_validation
            ELSE IF ~metrics_validation.valid THEN metrics_validation
            ELSE IF "notes" \in DOMAIN entry /\ ~validate_notes(entry.notes).valid
            THEN validate_notes(entry.notes)
            ELSE IF "warnings" \in DOMAIN metrics_validation
            THEN [valid |-> TRUE, message |-> "Entry data is valid",
                  warnings |-> metrics_validation.warnings]
            ELSE Valid("Entry data is valid")

\* A formatted message, given by its template and the values put into it.
Format(template, value) == [template |-> template, value |-> value]

\* f"Row {index + 1}: {text}" for the row at position i, counted from 1; the
\* index of the frame is the RangeIndex read_csv gives it.
RowMessage(i, text) == [template |-> "Row {}: {}", row |-> i, text |-> text]

\* str(e) of the exception caught in the loop of validate_csv_data.
ExceptionText(exc) ==
    CASE exc = "ValueError" ->
            "Error validating data - day is out of range for month"

required_columns == <<"person_id", "timestamp", "heart_rate", "systolic_bp",
                      "diastolic_bp", "energy_level">>

\* The dictionary validate_csv_data builds of row i; row.get('notes', '').
RowEntry(df, i) ==
    LET row == df.rows[i]
    IN  [person_id |-> row.person_id, timestamp |-> row.timestamp,
         heart_rate |-> row.heart_rate, systolic_bp |-> row.systolic_bp,
         diastolic_bp |-> row.diastolic_bp, energy_level |-> row.energy_level,
         notes |-> IF "notes" \in DOMAIN row THEN row.notes ELSE StrV(<<>>)]

\* What the loop appends to validation_errors for row i.
RowErrors(df, i, now) ==
    LET validation_result == validate_entry_data(RowEntry(df, i), now)
    IN  IF "raises" \in DOMAIN validation_result
        THEN <<RowMessage(i, ExceptionText(validation_result.raises))>>
        ELSE IF ~validation_result.valid
        THEN <<RowMessage(i, validation_result.message)>>
        ELSE <<>>

\* What the loop appends to validation_warnings for row i.
RowWarnings(df, i, now) ==
    LET validation_result == validate_entry_data(RowEntry(df, i), now)
    IN  IF "raises" \notin DOMAIN validation_result /\ validation_result.valid
           /\ "warnings" \in DOMAIN validation_result
        THEN [k \in 1..Len(validation_result.warnings) |->
                RowMessage(i, validation_result.warnings[k])]
        ELSE <<>>

\* validation_errors and validation_warnings after the first n rows.
RECURSIVE validation_errors(_, _, _)
validation_errors(df, n, now) ==
    IF n = 0 THEN <<>>
    ELSE validation_errors(df, n - 1, now) \o RowErrors(df, n, now)

RECURSIVE validation_warnings(_, _, _)
validation_warnings(df, n, now) ==
    IF n = 0 THEN <<>>
    ELSE validation_warnings(df, n - 1, now) \o RowWarnings(df, n, now)

\* list[:n]
FirstOf(list, n) == SubSeq(list, 1, IF Len(list) < n THEN Len(list) ELSE n)

\* A report that lists every error.
AllErrors(errors) == errors

ErrorLimit == 10
WarningLimit == 20

\* validation_errors[:10]
ListedErrors(errors) == FirstOf(errors, ErrorLimit)

\* validation_warnings[:20]
ListedWarnings(warnings) == FirstOf(warnings, WarningLimit)

validate_csv_data(df, now) ==
    LET Absent(col) == \A i \in 1..Len(df.columns) : df.columns[i] # col
        missing_columns == SelectSeq(required_columns, Absent)
        errors == validation_errors(df, Len(df.rows), now)
        warnings == validation_warnings(df, Len(df.rows), now)
    IN  IF missing_columns # <<>>
        THEN Invalid(Format("Missing required columns: {}", missing_columns))
        ELSE IF IsEmpty(df) THEN Invalid("No data found in CSV")
        ELSE IF errors # <<>>
        THEN [valid |-> FALSE,
              message |-> Format("Validation failed with {} errors", Len(errors)),
              errors |-> ListedErrors(errors),
              total_errors |-> Len(errors)]
        ELSE IF warnings # <<>>
        THEN [valid |-> TRUE,
              message |-> Format("CSV data is valid ({} rows)", Len(df.rows)),
              warnings |-> ListedWarnings(warnings),
              total_warnings |-> Len(warnings)]
        ELSE Valid(Format("CSV data is valid ({} rows)", Len(df.rows)))

(***************************************************************************)
(* The arguments the validators are run on.                                *)
(***************************************************************************)
\* Systolic and diastolic values: each bound of the function and the value
\* next to it, a missing value, a text and None.
SystolicValues ==
    { IntV(n) : n \in { 69, 70, 89, 90, 139, 140, 250, 251 } }
    \cup { NaN, StrV(<<"1", "2", "0">>), NoneV }

DiastolicValues ==
    { IntV(n) : n \in { 39, 40, 59, 60, 89, 90, 150, 151 } }
    \cup { NaN, NoneV }

HeartRateValues ==
    { IntV(n) : n \in { 29, 55, 70, 101, 201 } } \cup { NaN, StrV(<<"7", "0">>) }

\* Heart rates at and next to each bound of validate_heart_rate.
HeartRates ==
    { IntV(n) : n \in { 29, 30, 31, 115, 199, 200, 201 } }
    \cup { FloatV(30), NaN, NoneV, StrV(<<"7", "0">>) }

\* A text of n characters.
TextOfLength(n) == [i \in 1..n |-> "x"]

\* Person ids: empty, too short, of each length at and next to the bounds,
\* of every kind of character, with a character outside the pattern and
\* with whitespace inside, before and after; and values that are no text.
PersonIdValues ==
    { StrV(id) :
        id \in { <<>>, <<"a">>, <<"a", "l">>, <<"a", "_", "-", "9", "Z">>,
                 <<"a", "!">>, <<"a", " ", "l">>, <<" ", "a", "l">>,
                 <<"a", "l", " ">>, <<"a", " ">>, <<" ", " ">>,
                 TextOfLength(MaxIdLength - 1), TextOfLength(MaxIdLength),
                 TextOfLength(MaxIdLength + 1),
                 TextOfLength(MaxIdLength) \o <<" ">>,
                 <<"!">> \o TextOfLength(MaxIdLength) } }
    \cup { NoneV, IntV(7), IntV(0), NaN }

PressurePairs ==
    { <<IntV(120), IntV(80)>>, <<IntV(85), IntV(55)>>, <<IntV(145), IntV(80)>>,
      <<IntV(120), IntV(125)>>, <<IntV(60), IntV(50)>> }

EnergyValues == { IntV(n) : n \in { 0, 3, 5, 8, 11 } } \cup { NoneV }

(***************************************************************************)
(* The boundary: the two handlers of the pages that write to the store.    *)
(***************************************************************************)
\* The current time of the handlers' run.
Now == <<2024, 1, 2, 12>>

\* What the widgets of the data entry form can hold: any text as person id
\* (a name, a single letter, a blank), a date in the past or in the coming
\* days, numbers inside each number_input's min_value..max_value.
FormPersonTexts == { <<"a", "l">>, <<"a">>, <<" ">> }
FormTimestamps == { <<2024, 1, 1, 8>>, <<2024, 1, 3, 8>> }
FormMetrics == { <<70, 120, 80, 5>>, <<70, 80, 90, 5>> }

\* The submit handler of health_metrics_form: the entry it saves, or NoEntry
\* when it reports an error instead.
FormEntry(person, ts, m, notes) ==
    IF Strip(person) = <<>> THEN NoEntry
    ELSE IF ~validate_health_metrics(IntV(m[1]), IntV(m[2]), IntV(m[3]), IntV(m[4])).valid
    THEN NoEntry
    ELSE [person_id |-> StrV(Strip(person)), timestamp |-> ts,
          heart_rate |-> m[1], systolic_bp |-> m[2], diastolic_bp |-> m[3],
          energy_level |-> m[4],
          notes |-> StrV(IF notes # <<>> THEN Strip(notes) ELSE <<>>)]

submit_form(file, person, ts, m, notes) ==
    LET e == FormEntry(person, ts, m, notes)
    IN  IF e = NoEntry THEN Result(file, FALSE, "none")
        ELSE add_entry(file, e, "none")

\* str(v)
PyStr(v) ==
    CASE v.k = "str" -> v.s
      [] v.k = "nan" -> <<"n", "a", "n">>
      [] OTHER -> WriteCell(v)

\* The uploaded files of the model: one or two rows, the columns of the
\* store, metrics that are numbers.
MaxImport == 2

ImportRows ==
    { [person_id |-> p, timestamp |-> t, heart_rate |-> m[1],
       systolic_bp |-> m[2], diastolic_bp |-> m[3], energy_level |-> m[4],
       notes |-> <<>>] :
        p \in { <<"a", "l">> }, t \in Timestamps,
        m \in { <<70, 120, 80, 5>>, <<999, 120, 80, 5>> } }

Uploads ==
    { [columns |-> columns, rows |-> rows] :
        rows \in UNION { [1..n -> ImportRows] : n \in 1..MaxImport } }

\* The entry the import loop builds from a row of the uploaded frame.
ImportEntry(row) ==
    [row EXCEPT !.person_id = StrV(PyStr(row.person_id)),
                !.notes = StrV(PyStr(row.notes))]

\* for _, row in import_data.iterrows(): add_entry(entry_data), counting
\* the calls that returned True.
RECURSIVE ImportLoop(_, _, _)
ImportLoop(file, rows, count) ==
    IF rows = <<>> THEN [csv_file |-> file, success_count |-> count]
    ELSE LET r == add_entry(file, ImportEntry(Head(rows)), "none")
         IN  ImportLoop(r.csv_file, Tail(rows),
                        IF r.ret THEN count + 1 ELSE count)

\* The 'Import Data' handler on an uploaded file: True when every row was
\* imported.
import_upload(file, upload) ==
    LET import_data == read_csv(upload)
        done == ImportLoop(file, import_data.rows, 0)
    IN  Result(done.csv_file, done.success_count = Len(import_data.rows), "none")

\* The values of the clock: a day of January, and a 29th of February.
Nows == { Now, <<2024, 2, 29, 12>> }

\* Instants at, just after, ten years before and around ten years before
\* these values of the clock.
Instants ==
    { <<2024, 1, 2, 12>>, <<2024, 1, 2, 13>>, <<2014, 1, 2, 12>>,
      <<2014, 1, 2, 11>>, <<2014, 1, 2, 0>>, <<2014, 1, 1, 23>>,
      <<2024, 2, 29, 12>>, <<2024, 2, 29, 13>>, <<2014, 2, 28, 12>>,
      <<2014, 3, 1, 12>>, <<2019, 6, 1, 0>> }

TimestampValues ==
    { DatetimeV(t) : t \in Instants }
    \cup { TimestampText(format, t) :
              format \in { SecondsFormat, MinutesFormat, "%d/%m/%Y" },
              t \in Instants }
    \cup { TimestampText(SecondsFormat, <<2023, 2, 29, 12>>), NoneV, IntV(0) }

\* A text one character longer than validate_notes allows.
LongText == [i \in 1..(MaxNotesLength + 1) |-> "x"]

\* The dictionaries validate_entry_data is run on: every field good or bad,
\* and some keys left out.
FullEntries ==
    { [person_id |-> p, timestamp |-> DatetimeV(t), heart_rate |-> hr,
       systolic_bp |-> bp[1], diastolic_bp |-> bp[2], energy_level |-> energy,
       notes |-> notes] :
        p \in { StrV(<<"a", "l">>), StrV(<<"a">>) },
        t \in { <<2024, 1, 2, 12>>, <<2024, 1, 2, 13>> },
        hr \in { IntV(70), IntV(999), IntV(55) },
        bp \in { <<IntV(120), IntV(80)>>, <<IntV(145), IntV(80)>> },
        energy \in { IntV(5), IntV(8), IntV(11) },
        notes \in { StrV(<<"n">>), StrV(LongText), IntV(5), NoneV } }

LeftOut ==
    { {}, { "notes" }, { "heart_rate" }, { "person_id", "energy_level" },
      { "timestamp", "notes" } }

Without(entry, keys) == [key \in DOMAIN entry \ keys |-> entry[key]]

EntryDicts == { Without(entry, keys) : entry \in FullEntries, keys \in LeftOut }

\* The largest number of rows of a table given to validate_csv_data.
MaxTableRows == 11

\* The rows of these tables: one that passes and one with heart_rate 999.
TableRows ==
    { [person_id |-> StrV(<<"a", "l">>),
       timestamp |-> TimestampText(SecondsFormat, <<2024, 1, 1, 8>>),
       heart_rate |-> IntV(hr), systolic_bp |-> IntV(120),
       diastolic_bp |-> IntV(80), energy_level |-> IntV(5),
       notes |-> StrV(<<"n">>)] : hr \in { 70, 999 } }

\* Tables with all the columns, and none to MaxTableRows rows.
FullTables ==
    { [columns |-> columns, rows |-> rows] :
        rows \in UNION { [1..n -> TableRows] : n \in 0..MaxTableRows } }

\* A table without some of its columns.
WithoutColumns(df, cols) ==
    LET Kept(c) == c \notin cols
    IN  [columns |-> SelectSeq(df.columns, Kept),
         rows |-> [i \in 1..Len(df.rows) |-> Without(df.rows[i], cols)]]

ShortTables == { df \in FullTables : Len(df.rows) <= 1 }

\* Rows for the warnings: one that passes with warnings (a high systolic
\* pressure, and a high energy level with a low heart rate) and one that fails.
WarningRows ==
    { [person_id |-> StrV(<<"a", "l">>),
       timestamp |-> TimestampText(SecondsFormat, <<2024, 1, 1, 8>>),
       heart_rate |-> IntV(hr), systolic_bp |-> IntV(145),
       diastolic_bp |-> IntV(80), energy_level |-> IntV(8),
       notes |-> StrV(<<"n">>)] : hr \in { 55, 999 } }

WarningTables ==
    { [columns |-> columns, rows |-> rows] :
        rows \in UNION { [1..n -> WarningRows] : n \in 1..MaxTableRows } }

Tables ==
    FullTables
    \cup WarningTables
    \cup { WithoutColumns(df, cols) :
              df \in ShortTables,
              cols \in { { "notes" }, { "heart_rate" },
                         { "timestamp", "energy_level" } } }

(***************************************************************************)
(* DataHandler, the queries.  A date is the tuple <<year, month, day>>.    *)
(***************************************************************************)
\* Timestamp.date()
DateOf(ts) == <<ts[1], ts[2], ts[3]>>

\* a < b on two dates
DateBefore(a, b) ==
    \E i \in 1..3 : a[i] < b[i] /\ \A j \in 1..(i - 1) : a[j] = b[j]

\* df[df['person_id'] == person_id]
PersonRows(df, p) ==
    LET Match(r) == PyEq(r.person_id, StrV(p))
    IN  [df EXCEPT !.rows = SelectSeq(df.rows, Match)]

\* person_data[person_data['timestamp'].dt.date >= start_date]
FromDate(df, start) ==
    LET Keep(r) == ~DateBefore(DateOf(r.timestamp), start)
    IN  [df EXCEPT !.rows = SelectSeq(df.rows, Keep)]

\* person_data[person_data['timestamp'].dt.date <= end_date]
ToDate(df, end) ==
    LET Keep(r) == ~DateBefore(end, DateOf(r.timestamp))
    IN  [df EXCEPT !.rows = SelectSeq(df.rows, Keep)]

\* A row put into a sorted sequence, behind the rows that are not later.
RECURSIVE InsertByTimestamp(_, _)
InsertByTimestamp(sorted, r) ==
    IF sorted = <<>> THEN <<r>>
    ELSE IF Earlier(r.timestamp, sorted[Len(sorted)].timestamp)
         THEN Append(InsertByTimestamp(SubSeq(sorted, 1, Len(sorted) - 1), r),
                     sorted[Len(sorted)])
         ELSE Append(sorted, r)

\* person_data.sort_values('timestamp'): frames this short are sorted by
\* insertion, rows of equal timestamp keep their order.
RECURSIVE SortRows(_)
SortRows(rows) ==
    IF rows = <<>> THEN <<>>
    ELSE InsertByTimestamp(SortRows(SubSeq(rows, 1, Len(rows) - 1)),
                           rows[Len(rows)])

sort_values(df) == [df EXCEPT !.rows = SortRows(df.rows)]

\* get_person_data: the frame returned.  pd.to_datetime turns the
\* timestamp texts into the instants they spell, the tuples of the model.
get_person_data(file, p, start_date, end_date, f) ==
    LET df == load_data(file, f)
        person_data == PersonRows(df, p)
        from_start == IF start_date # None
                      THEN FromDate(person_data, start_date) ELSE person_data
        to_end == IF end_date # None
                  THEN ToDate(from_start, end_date) ELSE from_start
    IN  IF IsEmpty(df) THEN EmptyFrame
        ELSE IF IsEmpty(person_data) THEN EmptyFrame
        ELSE sort_values(to_end)

RECURSIVE SumOf(_)
SumOf(xs) == IF xs = <<>> THEN 0 ELSE Head(xs) + SumOf(Tail(xs))

RECURSIVE SumOfSquares(_)
SumOfSquares(xs) ==
    IF xs = <<>> THEN 0 ELSE Head(xs) * Head(xs) + SumOfSquares(Tail(xs))

\* Series.mean(), as the fraction sum / count.
Mean(xs) == [num |-> SumOf(xs), den |-> Len(xs)]

\* Series.std(), the sample standard deviation: NaN for a single value,
\* else the square root of (n * sum(x^2) - sum(x)^2) / (n * (n - 1)), given
\* by that fraction.
Std(xs) ==
    IF Len(xs) = 1 THEN NaN
    ELSE [squared |->
            [num |-> Len(xs) * SumOfSquares(xs) - SumOf(xs) * SumOf(xs),
             den |-> Len(xs) * (Len(xs) - 1)]]

\* Series.min() and Series.max() of a column of integers.
MinOf(xs) == CHOOSE m \in { xs[i] : i \in 1..Len(xs) } :
                \A i \in 1..Len(xs) : m <= xs[i]
MaxOf(xs) == CHOOSE m \in { xs[i] : i \in 1..Len(xs) } :
                \A i \in 1..Len(xs) : m >= xs[i]

\* pd.to_datetime(df['timestamp']).min() and .max()
EarliestOf(ts) == CHOOSE m \in { ts[i] : i \in 1..Len(ts) } :
                    \A i \in 1..Len(ts) : ~Earlier(ts[i], m)
LatestOf(ts) == CHOOSE m \in { ts[i] : i \in 1..Len(ts) } :
                    \A i \in 1..Len(ts) : ~Earlier(m, ts[i])

\* Series.nunique(): the number of distinct values, missing ones left out.
nunique(xs) == Cardinality({ xs[i] : i \in 1..Len(xs) } \ { NaN })

\* get_summary_stats: the dictionary returned; a person_id of None or ''
\* asks for all the data.
get_summary_stats(file, p, f) ==
    LET df == load_data(file, f)
        selected == IF p # None THEN PersonRows(df, p) ELSE df
        of(c) == Column(selected.rows, c)
    IN  IF IsEmpty(df) THEN NoStats
        ELSE IF IsEmpty(selected) THEN NoStats
        ELSE [total_entries |-> Len(selected.rows),
              date_range |-> [start |-> EarliestOf(of("timestamp")),
                              end |-> LatestOf(of("timestamp"))],
              heart_rate |-> [mean |-> Mean(of("heart_rate")),
                              std |-> Std(of("heart_rate")),
                              min |-> MinOf(of("heart_rate")),
                              max |-> MaxOf(of("heart_rate"))],
              blood_pressure |->
                  [systolic_mean |-> Mean(of("systolic_bp")),
                   diastolic_mean |-> Mean(of("diastolic_bp")),
                   systolic_std |-> Std(of("systolic_bp")),
                   diastolic_std |-> Std(of("diastolic_bp"))],
              energy_level |-> [mean |-> Mean(of("energy_level")),
                                std |-> Std(of("energy_level")),
                                min |-> MinOf(of("energy_level")),
                                max |-> MaxOf(of("energy_level"))],
              unique_people |-> IF p = None THEN nunique(of("person_id"))
                                ELSE 1]

\* The records of the query runs: two persons, two days, two readings.
QueryMetrics == { <<70, 120, 80, 5>>, <<60, 110, 70, 9>> }

QueryEntries ==
    { [person_id |-> StrV(p), timestamp |-> t, heart_rate |-> m[1],
       systolic_bp |-> m[2], diastolic_bp |-> m[3], energy_level |-> m[4],
       notes |-> StrV(<<>>)] :
        p \in PersonIds, t \in Timestamps, m \in QueryMetrics }

\* The bounds passed to get_person_data: none, or a day.
Dates == { None } \cup { DateOf(t) : t \in Timestamps }

(***************************************************************************)
(* DataHandler, the constructor, the export and the backup.  A path is the *)
(* sequence of its parts; a path that names no file holds NoFile.          *)
(***************************************************************************)
NoFile == [exists |-> FALSE]

\* self.csv_file, the default of __init__
csv_path == <<"circadian_data.csv">>

\* A header line is written whether or not the file is there.
ensure_csv_rewritten(file) == to_csv(EmptyFrame)

\* _ensure_csv_exists: the header line is written if no file is there.
ensure_csv_exists(file) ==
    IF file = NoFile THEN to_csv(EmptyFrame) ELSE file

\* export_data: the text returned.  With a person_id the rows are those of
\* get_person_data, else the loaded rows within the dates given.
export_data(file, p, start_date, end_date, f) ==
    LET df == load_data(file, f)
        from_start == IF start_date # None THEN FromDate(df, start_date) ELSE df
        to_end == IF end_date # None THEN ToDate(from_start, end_date)
                  ELSE from_start
    IN  IF p # None
        THEN to_csv(get_person_data(file, p, start_date, end_date, f))
        ELSE to_csv(to_end)

\* circadian_data_backup_%Y%m%d_%H%M%S.csv at 2024-01-02 12:00
default_backup_path == <<"circadian_data_backup_20240102_120000.csv">>

\* The paths passed to backup_data: none, another file, the backing file.
BackupPaths == { None, <<"backup.csv">>, csv_path }

\* backup_data: the path written, the text written to it and the value
\* returned; a failed write leaves the files alone and returns None.
backup_data(file, backup_filename, f) ==
    LET path == IF backup_filename = None THEN default_backup_path
                ELSE backup_filename
        df == load_data(file, f)
    IN  IF f = "write"
        THEN [path |-> path, written |-> FALSE, text |-> NoFile, ret |-> None]
        ELSE [path |-> path, written |-> TRUE, text |-> to_csv(df), ret |-> path]

(***************************************************************************)
(* add_entry run by two callers at once, each a handler object of its own  *)
(* on the same backing file.  A call goes through three steps: it loads    *)
(* the file, checks the frame it loaded for a duplicate, and writes that   *)
(* frame with the entry appended.                                          *)
(***************************************************************************)
Callers == { 1, 2 }

\* The entries of the concurrent calls.
KeyEntries == { e \in Entries : e.notes = StrV(<<>>) }

\* A caller that has made no call.
IdleCall ==
    [pc |-> "idle", entry_data |-> NoEntry, df |-> EmptyFrame, ret |-> FALSE,
     alone |-> TRUE]

\* A call is between its load and its return.
Running(call) == call.pc \in { "loaded", "checked" }

\* The call after df = self.load_data(); alone says that no call of the
\* other caller is running.
LoadStep(file, e, others_running) ==
    [pc |-> "loaded", entry_data |-> e, df |-> load_data(file, "none"),
     ret |-> FALSE, alone |-> ~others_running]

\* The call after the duplicate check: return False, or go on to the write.
CheckStep(call) ==
    IF ~IsEmpty(call.df) /\ duplicate_mask(call.df, call.entry_data)
    THEN [call EXCEPT !.pc = "done", !.ret = FALSE]
    ELSE [call EXCEPT !.pc = "checked"]

\* The frame loaded written back without the entry.
WriteStepLoadedOnly(call) == to_csv(call.df)

\* The text df.to_csv writes, df being the frame loaded and the entry.
WriteStep(call) == to_csv(concat(call.df, call.entry_data))

(***************************************************************************)
(* State.                                                                  *)
(***************************************************************************)
VARIABLES
    csv_file,      \* the text of the backing file: [columns, rows]
    op,            \* the operation called last
    entry_data,    \* its arguments ...
    index,
    updated_data,
    person_id,
    fault,         \* the I/O failure it met: "none", "read" or "write"
    ret,           \* what it returned
    rows_before,   \* the number of records in the file when it was called
    uploaded,      \* the file uploaded to the import handler
    loaded,        \* the frame a query returned
    date_range,    \* <<start_date, end_date>> passed to get_person_data
    stats,         \* the dictionary get_summary_stats returned
    validator,     \* the validator called last
    args,          \* its arguments
    verdict,       \* what it returned, or the exception it raised
    calls,         \* the add_entry call of each concurrent caller
    backup_filename,  \* the path passed to backup_data
    backup_file    \* the text of the file backup_data wrote

\* The variables of the store and of its callers.
store_vars == <<csv_file, op, entry_data, index, updated_data, person_id, fault,
                ret, rows_before, uploaded, loaded, date_range, stats>>

\* The variables of a call of a validator.
validator_vars == <<validator, args, verdict>>

\* The variables of the concurrent calls and of the backup.
other_vars == <<calls, backup_filename, backup_file>>

\* The last call made and its result.
last_call_vars == <<op, entry_data, index, updated_data, person_id, fault,
                    ret, rows_before, uploaded, loaded, date_range, stats>>

vars == <<csv_file, op, entry_data, index, updated_data, person_id, fault,
          ret, rows_before, uploaded, loaded, date_range, stats,
          validator, args, verdict, calls, backup_filename, backup_file>>

\* DataHandler() where no file is: _ensure_csv_exists has written the header
\* line.
InitStore ==
    /\ csv_file = ensure_csv_exists(NoFile)
    /\ calls = [c \in Callers |-> IdleCall]
    /\ backup_filename = None
    /\ backup_file = NoFile
    /\ op = "__init__"
    /\ entry_data = NoEntry
    /\ index = NoIndex
    /\ updated_data = NoUpdate
    /\ person_id = NoPerson
    /\ fault = "none"
    /\ ret = TRUE
    /\ rows_before = 0
    /\ uploaded = NoUpload
    /\ loaded = EmptyFrame
    /\ date_range = NoDates
    /\ stats = NoStats

Init ==
    /\ InitStore
    /\ validator = "none"
    /\ args = <<>>
    /\ verdict = NoVerdict

\* A table and a value of the clock, about to be validated.
InitCsv ==
    /\ InitStore
    /\ validator = "none"
    /\ args \in Tables \X Nows
    /\ verdict = NoVerdict

(***************************************************************************)
(* One action per call of an operation.  The calls run one at a time, as   *)
(* the application's single handler object runs them.                      *)
(***************************************************************************)
\* The call made: its name and its arguments (the arguments the operation
\* does not take are set to the placeholders above), and its result.
Call(o, e, i, u, p, r) ==
    /\ Len(r.csv_file.rows) <= MaxRows
    /\ op' = o
    /\ entry_data' = e
    /\ index' = i
    /\ updated_data' = u
    /\ person_id' = p
    /\ csv_file' = r.csv_file
    /\ ret' = r.ret
    /\ fault' = r.fault
    /\ rows_before' = Len(csv_file.rows)
    /\ uploaded' = NoUpload
    /\ loaded' = EmptyFrame
    /\ date_range' = NoDates
    /\ stats' = NoStats
    /\ UNCHANGED <<validator_vars, other_vars>>

CallAddEntry(e, f) ==
    Call("add_entry", e, NoIndex, NoUpdate, NoPerson, add_entry(csv_file, e, f))

CallUpdateEntry(i, u, f) ==
    Call("update_entry", NoEntry, i, u, NoPerson, update_entry(csv_file, i, u, f))

CallDeleteEntry(i, f) ==
    Call("delete_entry", NoEntry, i, NoUpdate, NoPerson, delete_entry(csv_file, i, f))

CallDeletePersonData(p, f) ==
    Call("delete_person_data", NoEntry, NoIndex, NoUpdate, p,
         delete_person_data(csv_file, p, f))

CallClearAllData(f) ==
    /\ f # "read"
    /\ Call("clear_all_data", NoEntry, NoIndex, NoUpdate, NoPerson,
            clear_all_data(csv_file, f))

\* load_data(): the frame it returns; the file is not written.
CallLoadData(f) ==
    /\ op' = "load_data"
    /\ loaded' = load_data(csv_file, f)
    /\ fault' = f
    /\ ret' = TRUE
    /\ entry_data' = NoEntry
    /\ index' = NoIndex
    /\ updated_data' = NoUpdate
    /\ person_id' = NoPerson
    /\ uploaded' = NoUpload
    /\ rows_before' = Len(csv_file.rows)
    /\ date_range' = NoDates
    /\ stats' = NoStats
    /\ UNCHANGED csv_file
    /\ UNCHANGED <<validator_vars, other_vars>>

\* A query: its name, its arguments and what it returned; the file is not
\* written.
Query(o, p, dates, frame, st, f) ==
    /\ op' = o
    /\ person_id' = p
    /\ date_range' = dates
    /\ loaded' = frame
    /\ stats' = st
    /\ fault' = f
    /\ ret' = TRUE
    /\ entry_data' = NoEntry
    /\ index' = NoIndex
    /\ updated_data' = NoUpdate
    /\ uploaded' = NoUpload
    /\ rows_before' = Len(csv_file.rows)
    /\ UNCHANGED csv_file
    /\ UNCHANGED <<validator_vars, other_vars>>

CallGetPersonData(p, start_date, end_date, f) ==
    Query("get_person_data", p, <<start_date, end_date>>,
          get_person_data(csv_file, p, start_date, end_date, f), NoStats, f)

CallGetSummaryStats(p, f) ==
    Query("get_summary_stats", p, NoDates, EmptyFrame,
          get_summary_stats(csv_file, p, f), f)

\* DataHandler() over the backing file as it is.
Construct ==
    Call("__init__", NoEntry, NoIndex, NoUpdate, NoPerson,
         Result(ensure_csv_exists(csv_file), TRUE, "none"))

CallExportData(p, start_date, end_date, f) ==
    Query("export_data", p, <<start_date, end_date>>,
          export_data(csv_file, p, start_date, end_date, f), NoStats, f)

\* backup_data(backup_filename): the file of that path is written, which is
\* the backing file when the path is the backing file's.
CallBackupData(name, f) ==
    LET r == backup_data(csv_file, name, f)
    IN  /\ op' = "backup_data"
        /\ backup_filename' = name
        /\ ret' = r.ret
        /\ fault' = f
        /\ csv_file' = IF r.written /\ r.path = csv_path THEN r.text ELSE csv_file
        /\ backup_file' = IF r.written /\ r.path # csv_path THEN r.text
                          ELSE backup_file
        /\ entry_data' = NoEntry
        /\ index' = NoIndex
        /\ updated_data' = NoUpdate
        /\ person_id' = NoPerson
        /\ uploaded' = NoUpload
        /\ rows_before' = Len(csv_file.rows)
        /\ loaded' = EmptyFrame
        /\ date_range' = NoDates
        /\ stats' = NoStats
        /\ UNCHANGED <<validator_vars, calls>>

\* The steps of the add_entry call of caller c.
AddEntryLoad(c, e) ==
    /\ ~Running(calls[c])
    /\ Len(csv_file.rows) < MaxRows
    /\ calls' =
          [d \in Callers |->
              IF d = c
              THEN LoadStep(csv_file, e, \E o \in Callers \ {c} : Running(calls[o]))
              ELSE IF Running(calls[d]) THEN [calls[d] EXCEPT !.alone = FALSE]
              ELSE calls[d]]
    /\ UNCHANGED <<csv_file, last_call_vars, validator_vars,
                   backup_filename, backup_file>>

AddEntryCheck(c) ==
    /\ calls[c].pc = "loaded"
    /\ calls' = [calls EXCEPT ![c] = CheckStep(calls[c])]
    /\ UNCHANGED <<csv_file, last_call_vars, validator_vars,
                   backup_filename, backup_file>>

AddEntryWrite(c) ==
    /\ calls[c].pc = "checked"
    /\ csv_file' = WriteStep(calls[c])
    /\ calls' = [calls EXCEPT ![c].pc = "done", ![c].ret = TRUE]
    /\ UNCHANGED <<last_call_vars, validator_vars, backup_filename, backup_file>>

\* A call of a validator: its name, its arguments and what came back.
Validate(name, a, v) ==
    /\ validator' = name
    /\ args' = a
    /\ verdict' = v
    /\ UNCHANGED <<store_vars, other_vars>>

ValidatePersonId(v) ==
    Validate("validate_person_id", <<v>>, validate_person_id(v))

ValidateHeartRate(v) ==
    Validate("validate_heart_rate", <<v>>, validate_heart_rate(v))

ValidateBloodPressure(sys, dia) ==
    Validate("validate_blood_pressure", <<sys, dia>>,
             validate_blood_pressure(sys, dia))

ValidateHealthMetrics(hr, sys, dia, energy) ==
    Validate("validate_health_metrics", <<hr, sys, dia, energy>>,
             validate_health_metrics(hr, sys, dia, energy))

ValidateTimestamp(v, now) ==
    Validate("validate_timestamp", <<v, now>>, validate_timestamp_input(v, now))

ValidateEntryData(entry, now) ==
    Validate("validate_entry_data", <<entry, now>>,
             validate_entry_data(entry, now))

\* validate_csv_data on the table and at the time of args.
ValidateCsvData ==
    /\ validator = "none"
    /\ validator' = "validate_csv_data"
    /\ verdict' = validate_csv_data(args[1], args[2])
    /\ UNCHANGED args
    /\ UNCHANGED <<store_vars, other_vars>>

\* A run of a page's handler: its name, the entry or the upload it
\* worked on, and its result.
Handle(o, e, up, r) ==
    /\ Len(r.csv_file.rows) <= MaxRows
    /\ op' = o
    /\ entry_data' = e
    /\ uploaded' = up
    /\ index' = NoIndex
    /\ updated_data' = NoUpdate
    /\ person_id' = NoPerson
    /\ csv_file' = r.csv_file
    /\ ret' = r.ret
    /\ fault' = r.fault
    /\ rows_before' = Len(csv_file.rows)
    /\ loaded' = EmptyFrame
    /\ date_range' = NoDates
    /\ stats' = NoStats
    /\ UNCHANGED <<validator_vars, other_vars>>

SubmitForm(person, ts, m, notes) ==
    Handle("submit_form", FormEntry(person, ts, m, notes), NoUpload,
           submit_form(csv_file, person, ts, m, notes))

ImportData(upload) ==
    Handle("import_data", NoEntry, upload, import_upload(csv_file, upload))

(***************************************************************************)
(* Specifications.                                                         *)
(***************************************************************************)
\* The store with a backing file that can always be read and written.
Next ==
    \/ \E e \in Entries : CallAddEntry(e, "none")
    \/ \E i \in Indexes, u \in Updates : CallUpdateEntry(i, u, "none")
    \/ \E i \in Indexes : CallDeleteEntry(i, "none")
    \/ \E p \in PersonIds : CallDeletePersonData(p, "none")
    \/ CallClearAllData("none")

Spec == Init /\ [][Next]_vars

\* The store with a backing file whose read or write may fail in any call.
NextIO ==
    \/ \E e \in Entries, f \in Faults : CallAddEntry(e, f)
    \/ \E i \in Indexes, u \in Updates, f \in Faults : CallUpdateEntry(i, u, f)
    \/ \E i \in Indexes, f \in Faults : CallDeleteEntry(i, f)
    \/ \E p \in PersonIds, f \in Faults : CallDeletePersonData(p, f)
    \/ \E f \in Faults : CallClearAllData(f)
    \/ \E f \in Faults \ {"write"} : CallLoadData(f)

SpecIO == Init /\ [][NextIO]_vars

\* The store and its queries.
NextQuery ==
    \/ \E e \in QueryEntries : CallAddEntry(e, "none")
    \/ \E i \in Indexes : CallDeleteEntry(i, "none")
    \/ \E p \in PersonIds, start_date \in Dates, end_date \in Dates :
            CallGetPersonData(p, start_date, end_date, "none")
    \/ \E p \in PersonIds \cup { None } : CallGetSummaryStats(p, "none")

SpecQuery == Init /\ [][NextQuery]_vars

\* The operations that read, a store filled by add_entry: a record of
\* each person, on a day of its own, and the bounds none or the first day.
ReadOnlyEntries ==
    { e \in KeyEntries :
        (e.person_id = StrV(<<"a", "l">>)) = (e.timestamp = <<2024, 1, 1, 8>>) }

ReadOnlyDates == { None, <<2024, 1, 1>> }

NextReadOnly ==
    \/ \E e \in ReadOnlyEntries : CallAddEntry(e, "none")
    \/ Construct
    \/ \E f \in Faults \ {"write"} : CallLoadData(f)
    \/ \E p \in PersonIds, start_date \in ReadOnlyDates,
          end_date \in ReadOnlyDates, f \in Faults \ {"write"} :
            CallGetPersonData(p, start_date, end_date, f)
    \/ \E p \in PersonIds \cup { None }, f \in Faults \ {"write"} :
            CallGetSummaryStats(p, f)
    \/ \E p \in PersonIds \cup { None }, start_date \in ReadOnlyDates,
          end_date \in ReadOnlyDates, f \in Faults \ {"write"} :
            CallExportData(p, start_date, end_date, f)
    \/ \E name \in BackupPaths, f \in Faults : CallBackupData(name, f)

SpecReadOnly == Init /\ [][NextReadOnly]_vars

\* Two callers of add_entry whose steps interleave.
NextRace ==
    \/ \E c \in Callers, e \in KeyEntries : AddEntryLoad(c, e)
    \/ \E c \in Callers : AddEntryCheck(c)
    \/ \E c \in Callers : AddEntryWrite(c)

SpecRace == Init /\ [][NextRace]_vars

\* The validators, each a function of its arguments and of the clock.
NextValidators ==
    \/ \E v \in PersonIdValues : ValidatePersonId(v)
    \/ \E v \in HeartRates : ValidateHeartRate(v)
    \/ \E sys \in SystolicValues, dia \in DiastolicValues :
            ValidateBloodPressure(sys, dia)
    \/ \E hr \in HeartRateValues, bp \in PressurePairs, energy \in EnergyValues :
            ValidateHealthMetrics(hr, bp[1], bp[2], energy)
    \/ \E v \in TimestampValues, now \in Nows : ValidateTimestamp(v, now)
    \/ \E entry \in EntryDicts, now \in Nows : ValidateEntryData(entry, now)

SpecValidators == Init /\ [][NextValidators]_vars

\* validate_csv_data, a function of the table and of the clock.
NextCsv == ValidateCsvData

SpecCsv == InitCsv /\ [][NextCsv]_vars

\* The pages that write to the store: the data entry form and the import.
NextBoundary ==
    \/ \E person \in FormPersonTexts, ts \in FormTimestamps,
          m \in FormMetrics, notes \in NotesTexts :
            SubmitForm(person, ts, m, notes)
    \/ \E upload \in Uploads : ImportData(upload)

SpecBoundary == Init /\ [][NextBoundary]_vars

(***************************************************************************)
(* Properties of the store.  A property of one call is an action formula:  *)
(* unprimed variables are the state the call started in, primed ones the   *)
(* call made and its result.                                               *)
(***************************************************************************)
\* The stored text of a value passed by a caller.
TextOf(v) == WriteCell(v)

\* A record of the file has the person_id and timestamp of entry e.
HoldsKey(file, e) ==
    \E i \in 1..Len(file.rows) :
        /\ file.rows[i].person_id = TextOf(e.person_id)
        /\ file.rows[i].timestamp = e.timestamp

\* A loaded row equals entry e in every field, by Python's ==.
RowEquals(row, e) ==
    /\ PyEq(row.person_id, e.person_id)
    /\ row.timestamp = e.timestamp
    /\ row.heart_rate = e.heart_rate
    /\ row.systolic_bp = e.systolic_bp
    /\ row.diastolic_bp = e.diastolic_bp
    /\ row.energy_level = e.energy_level
    /\ PyEq(row.notes, e.notes)

ValidPosition(i, file) == 0 <= i /\ i < Len(file.rows)

\* C1: after any sequence of store operations run one at a time, no two
\* records of the dataset share both person_id and timestamp.
C1_UniqueKeys ==
    \A i, j \in 1..Len(csv_file.rows) :
        i # j =>
            ~ /\ csv_file.rows[i].person_id = csv_file.rows[j].person_id
              /\ csv_file.rows[i].timestamp = csv_file.rows[j].timestamp

\* C2: add_entry of a record whose (person_id, timestamp) the dataset already
\* holds returns false and leaves the dataset as it was.
C2_DuplicateRejected ==
    [][ (op' = "add_entry" /\ HoldsKey(csv_file, entry_data'))
            => (ret' = FALSE /\ csv_file' = csv_file) ]_vars

\* C3: add_entry of a record whose (person_id, timestamp) is not yet stored
\* returns true, and the load that follows has a row equal to the record in
\* every field.
C3_RoundTrip ==
    [][ (op' = "add_entry" /\ ~HoldsKey(csv_file, entry_data'))
            => /\ ret' = TRUE
               /\ \E i \in 1..Len(csv_file'.rows) :
                     RowEquals(load_data(csv_file', "none").rows[i], entry_data') ]_vars

\* C6: delete_person_data(p) returns true; afterwards the dataset is the
\* records of the other persons, unchanged and in the order they had.
C6_DeletePerson ==
    [][ op' = "delete_person_data"
            => /\ ret' = TRUE
               /\ \A i \in 1..Len(csv_file'.rows) :
                     csv_file'.rows[i].person_id # person_id'
               /\ LET Other(r) == r.person_id # person_id'
                  IN  csv_file'.rows = SelectSeq(csv_file.rows, Other) ]_vars

\* C7: delete_entry at a position inside the dataset returns true and removes
\* exactly that record: the records before it stay, the records after it move
\* up by one, each with the contents it had.
C7_DeleteEntry ==
    [][ (op' = "delete_entry" /\ ValidPosition(index', csv_file))
            => /\ ret' = TRUE
               /\ Len(csv_file'.rows) = Len(csv_file.rows) - 1
               /\ \A j \in 1..Len(csv_file'.rows) :
                     csv_file'.rows[j] =
                        IF j <= index' THEN csv_file.rows[j]
                        ELSE csv_file.rows[j + 1] ]_vars

\* C8: update_entry at a position inside the dataset returns true and changes
\* only the named fields of that record; keys that are no columns are ignored.
C8_UpdateEntry ==
    [][ (op' = "update_entry" /\ ValidPosition(index', csv_file))
            => /\ ret' = TRUE
               /\ Len(csv_file'.rows) = Len(csv_file.rows)
               /\ csv_file'.columns = csv_file.columns
               /\ \A j \in 1..Len(csv_file.rows) :
                     \A c \in DOMAIN csv_file.rows[j] :
                        (j # index' + 1 \/ c \notin DOMAIN updated_data')
                            => csv_file'.rows[j][c] = csv_file.rows[j][c]
               /\ DOMAIN csv_file'.rows[index' + 1]
                     = DOMAIN csv_file.rows[index' + 1] ]_vars

\* C9: update_entry and delete_entry at a position outside the dataset return
\* false and leave the dataset as it was.
C9_InvalidPositionRejected ==
    [][ (op' \in {"update_entry", "delete_entry"}
           /\ ~ValidPosition(index', csv_file))
            => (ret' = FALSE /\ csv_file' = csv_file) ]_vars

C9_Witness ==
    /\ op = "delete_entry"
    /\ rows_before > 0
    /\ index = rows_before
    /\ ret = FALSE
    /\ Len(csv_file.rows) = rows_before

\* C10: after clear_all_data has returned true the load returns the empty
\* dataset with the canonical columns, and the add_entry that follows is not
\* rejected.
C10_ClearAllData ==
    [][ /\ (op' = "clear_all_data" /\ ret' = TRUE)
            => load_data(csv_file', "none") = EmptyFrame
        /\ (op = "clear_all_data" /\ ret = TRUE /\ op' = "add_entry")
            => ret' = TRUE ]_vars

C10_Witness ==
    /\ op = "clear_all_data"
    /\ ret = TRUE
    /\ rows_before = MaxRows
    /\ load_data(csv_file, "none") = EmptyFrame

\* C4: every record the form and the import have stored satisfies every
\* constraint of the data model: the person_id format, the timestamp window,
\* the ranges of the four metrics and diastolic_bp < systolic_bp.
C4_StoredRecordsValid ==
    \A i \in 1..Len(csv_file.rows) :
        LET r == csv_file.rows[i]
        IN  /\ validate_person_id(StrV(r.person_id)).valid
            /\ validate_timestamp(r.timestamp, Now).valid
            /\ validate_health_metrics(IntV(r.heart_rate), IntV(r.systolic_bp),
                                       IntV(r.diastolic_bp), IntV(r.energy_level)).valid

Mutators ==
    { "add_entry", "update_entry", "delete_entry", "delete_person_data",
      "clear_all_data" }

\* C5: an operation whose read or write of the backing file failed returns
\* the safe default: False from add_entry, update_entry, delete_entry,
\* delete_person_data and clear_all_data, an empty frame from load_data.
C5_FailureDegrades ==
    fault # "none" =>
        /\ op \in Mutators => ret = FALSE
        /\ op = "load_data" => IsEmpty(loaded)

\* The number of rows of a sequence that equal r.
Count(rows, r) == Cardinality({ i \in 1..Len(rows) : rows[i] = r })

\* A stored record is of person p and its date lies within the bounds given.
InQuery(r, p, dates) ==
    /\ r.person_id = p
    /\ dates[1] # None => ~DateBefore(DateOf(r.timestamp), dates[1])
    /\ dates[2] # None => ~DateBefore(dates[2], DateOf(r.timestamp))

\* C11: get_person_data(p, start, end) returns exactly the stored records of
\* person p whose date is within the bounds given, both inclusive, in
\* ascending order of timestamp; none when no record matches.
C11_GetPersonData ==
    (op = "get_person_data" /\ fault = "none") =>
        LET got == to_csv(loaded).rows
            Wanted(r) == InQuery(r, person_id, date_range)
            want == SelectSeq(csv_file.rows, Wanted)
        IN  /\ Len(got) = Len(want)
            /\ \A i \in 1..Len(want) : Count(got, want[i]) = Count(want, want[i])
            /\ \A i, j \in 1..Len(got) :
                  i < j => ~Earlier(got[j].timestamp, got[i].timestamp)

\* C12: get_summary_stats returns the empty result exactly when no stored
\* record matches the filter; otherwise total_entries is the number of
\* matching records, the heart_rate and energy_level min/max and the
\* timestamp start/end are the extremes over them, and unique_people is the
\* number of distinct person_ids without a person_id and 1 with one.
C12_SummaryStats ==
    (op = "get_summary_stats" /\ fault = "none") =>
        LET Wanted(r) == person_id = None \/ r.person_id = person_id
            want == SelectSeq(csv_file.rows, Wanted)
            of(c) == Column(want, c)
        IN  /\ (stats = NoStats) = (want = <<>>)
            /\ want # <<>> =>
                  /\ stats.total_entries = Len(want)
                  /\ stats.heart_rate.min = MinOf(of("heart_rate"))
                  /\ stats.heart_rate.max = MaxOf(of("heart_rate"))
                  /\ stats.energy_level.min = MinOf(of("energy_level"))
                  /\ stats.energy_level.max = MaxOf(of("energy_level"))
                  /\ stats.date_range.start = EarliestOf(of("timestamp"))
                  /\ stats.date_range.end = LatestOf(of("timestamp"))
                  /\ stats.unique_people =
                        IF person_id = None
                        THEN Cardinality({ want[i].person_id : i \in 1..Len(want) })
                        ELSE 1

(***************************************************************************)
(* Properties of the validators.  A comparison of a claim is the           *)
(* arithmetic one: it holds of numbers only, and of no missing value.      *)
(***************************************************************************)
IsValue(v) == v.k \in { "int", "float" }

Within(v, lo, hi) == IsValue(v) /\ lo <= v.n /\ v.n <= hi

\* A verdict was returned and it says valid.
Accepted(v) == "valid" \in DOMAIN v /\ v.valid

\* A verdict was returned and it says invalid.
Rejected(v) == "valid" \in DOMAIN v /\ ~v.valid

\* C13: validate_blood_pressure(sys, dia) returns valid=true if and only if
\* both values are numbers, 70 <= sys <= 250, 40 <= dia <= 150 and dia < sys;
\* for dia >= sys with both in range the message says that diastolic must be
\* lower than systolic.
C13_BloodPressureValid ==
    validator = "validate_blood_pressure" =>
        LET sys == args[1]
            dia == args[2]
            in_range == Within(sys, 70, 250) /\ Within(dia, 40, 150)
        IN  /\ Accepted(verdict) = (in_range /\ dia.n < sys.n)
            /\ (in_range /\ dia.n >= sys.n) =>
                  verdict = Invalid("Diastolic pressure must be lower than systolic pressure")

LowWarning == "Blood pressure is in the low range"
HighWarning == "Blood pressure is in the high range"

\* C14: an accepted pair carries the low-range warning exactly when sys < 90
\* and dia < 60, the high-range warning exactly when sys >= 140 or dia >= 90,
\* and no warning otherwise; a rejected pair carries no warning.
C14_BloodPressureWarning ==
    validator = "validate_blood_pressure" =>
        LET sys == args[1]
            dia == args[2]
            low == IsValue(sys) /\ sys.n < 90 /\ IsValue(dia) /\ dia.n < 60
            high == (IsValue(sys) /\ sys.n >= 140) \/ (IsValue(dia) /\ dia.n >= 90)
            warned == "warning" \in DOMAIN verdict
        IN  /\ Rejected(verdict) => ~warned
            /\ Accepted(verdict) =>
                  /\ (warned /\ verdict.warning = LowWarning) = low
                  /\ (warned /\ verdict.warning = HighWarning) = high
                  /\ warned = (low \/ high)
                  /\ ~(low /\ high)

C14_Witness ==
    /\ validator = "validate_blood_pressure"
    /\ Accepted(verdict)
    /\ args = <<IntV(140), IntV(89)>>
    /\ "warning" \in DOMAIN verdict
    /\ verdict.warning = HighWarning

\* C15: validate_health_metrics returns valid=false exactly when one of
\* validate_heart_rate, validate_blood_pressure, validate_energy_level fails,
\* and then returns the verdict of the first of them that fails, in this
\* order, as it is.
C15_FirstFailure ==
    validator = "validate_health_metrics" =>
        LET hr == validate_heart_rate(args[1])
            bp == validate_blood_pressure(args[2], args[3])
            energy == validate_energy_level(args[4])
        IN  /\ Rejected(verdict) = (~hr.valid \/ ~bp.valid \/ ~energy.valid)
            /\ ~hr.valid => verdict = hr
            /\ (hr.valid /\ ~bp.valid) => verdict = bp
            /\ (hr.valid /\ bp.valid /\ ~energy.valid) => verdict = energy

C15_Witness ==
    /\ validator = "validate_health_metrics"
    /\ ~validate_heart_rate(args[1]).valid
    /\ ~validate_blood_pressure(args[2], args[3]).valid
    /\ ~validate_energy_level(args[4]).valid
    /\ verdict = Invalid("Heart rate too low (minimum 30 BPM)")

HighEnergyWarning ==
    "High energy level with low heart rate - please verify readings"
LowEnergyWarning ==
    "Low energy with high heart rate - consider medical consultation"

\* The members of a list.
Members(list) == { list[i] : i \in 1..Len(list) }

\* C16: the warnings of an accepted tuple are exactly the blood-pressure
\* warning if validate_blood_pressure attached one, the high-energy warning
\* iff energy_level >= 8 and heart_rate < 60, and the low-energy warning iff
\* energy_level <= 3 and heart_rate > 100; the key is absent when none applies.
C16_MetricsWarnings ==
    (validator = "validate_health_metrics" /\ Accepted(verdict)) =>
        LET hr == args[1]
            energy == args[4]
            bp == validate_blood_pressure(args[2], args[3])
            expected ==
                (IF "warning" \in DOMAIN bp THEN { bp.warning } ELSE {})
                \cup (IF IsValue(energy) /\ energy.n >= 8 /\ IsValue(hr) /\ hr.n < 60
                      THEN { HighEnergyWarning } ELSE {})
                \cup (IF IsValue(energy) /\ energy.n <= 3 /\ IsValue(hr) /\ hr.n > 100
                      THEN { LowEnergyWarning } ELSE {})
        IN  IF expected = {} THEN "warnings" \notin DOMAIN verdict
            ELSE /\ "warnings" \in DOMAIN verdict
                 /\ Members(verdict.warnings) = expected
                 /\ Len(verdict.warnings) = Cardinality(expected)

\* A blood-pressure warning and a cross-field warning together.
C16_Witness ==
    /\ validator = "validate_health_metrics"
    /\ Accepted(verdict)
    /\ "warnings" \in DOMAIN verdict
    /\ verdict.warnings = <<HighWarning, HighEnergyWarning>>

\* The argument of validate_timestamp is an instant: a datetime, or a text
\* in an accepted format of a date that exists.
IsInstant(v) ==
    \/ v.k = "datetime"
    \/ /\ v.k = "str"
       /\ v.format \in { SecondsFormat, MinutesFormat }
       /\ ~NoSuchDate(v.t[1], v.t[2], v.t[3])

\* C17: validate_timestamp accepts an instant exactly when it is not after
\* now and not before now minus 10 calendar years: now itself is valid, the
\* instant after now is invalid, the instant aged exactly 10 years is valid,
\* any older one is invalid.
C17_TimestampWindow ==
    (validator = "validate_timestamp" /\ IsInstant(args[1])) =>
        LET ts == args[1].t
            now == args[2]
            ten_years_before == <<now[1] - 10, now[2], now[3], now[4]>>
        IN  /\ ts = now => Accepted(verdict)
            /\ Earlier(now, ts) => Rejected(verdict)
            /\ ~NoSuchDate(now[1] - 10, now[2], now[3]) =>
                  Accepted(verdict) =
                      (~Earlier(now, ts) /\ ~Earlier(ts, ten_years_before))

\* C18: a validator returns a verdict, valid or not, with a message, for
\* every argument and every value of the clock; it never raises.
C18_VerdictReturned ==
    validator # "none" =>
        /\ "raises" \notin DOMAIN verdict
        /\ { "valid", "message" } \subseteq DOMAIN verdict

\* C19: validate_entry_data fails with a missing-field message when a
\* required field is absent, whatever the other fields hold; else it returns
\* the verdict of the first failing step of person_id, timestamp, health
\* metrics and notes (if present), and valid=true iff all of them pass, with
\* exactly the warnings of the health-metrics step.
C19_EntryData ==
    validator = "validate_entry_data" =>
        LET entry == args[1]
            now == args[2]
            missing == { required_fields[i] : i \in 1..Len(required_fields) }
                           \ DOMAIN entry
        IN  /\ "valid" \in DOMAIN verdict
            /\ missing # {} =>
                  /\ Rejected(verdict)
                  /\ verdict.message \in { MissingFieldMessage(f) : f \in missing }
            /\ missing = {} =>
                  LET person == validate_person_id(entry.person_id)
                      timestamp == validate_timestamp_input(entry.timestamp, now)
                      metrics == validate_health_metrics(
                                     entry.heart_rate, entry.systolic_bp,
                                     entry.diastolic_bp, entry.energy_level)
                      notes == IF "notes" \in DOMAIN entry
                               THEN validate_notes(entry.notes)
                               ELSE Valid("Valid notes")
                  IN  /\ Rejected(person) => verdict = person
                      /\ (Accepted(person) /\ Rejected(timestamp)) =>
                            verdict = timestamp
                      /\ (Accepted(person) /\ Accepted(timestamp)
                            /\ Rejected(metrics)) => verdict = metrics
                      /\ (Accepted(person) /\ Accepted(timestamp)
                            /\ Accepted(metrics) /\ Rejected(notes)) =>
                            verdict = notes
                      /\ Accepted(verdict) =
                            (Accepted(person) /\ Accepted(timestamp)
                               /\ Accepted(metrics) /\ Accepted(notes))
                      /\ Accepted(verdict) =>
                            IF "warnings" \in DOMAIN metrics
                            THEN /\ "warnings" \in DOMAIN verdict
                                 /\ verdict.warnings = metrics.warnings
                            ELSE "warnings" \notin DOMAIN verdict

\* The rows of a table that do not pass validate_entry_data, an exception
\* included.
FailingRows(df, now) ==
    { i \in 1..Len(df.rows) : ~Accepted(validate_entry_data(RowEntry(df, i), now)) }

\* The k-th row of a set of rows, in row order.
NthOf(rows, k) ==
    CHOOSE i \in rows : Cardinality({ j \in rows : j <= i }) = k

\* C20: validate_csv_data fails with the missing-columns verdict when a
\* required column is absent, else with the empty-input verdict when there
\* is no row; otherwise it is valid iff every row passes validate_entry_data,
\* total_errors is the number of failing rows, and errors holds the messages
\* of the first min(10, total_errors) failing rows, in row order, each naming
\* the row's number counted from 1.
C20_CsvData ==
    validator = "validate_csv_data" =>
        LET df == args[1]
            now == args[2]
            missing == { c \in { required_columns[i] : i \in 1..Len(required_columns) } :
                            \A i \in 1..Len(df.columns) : df.columns[i] # c }
            failing == FailingRows(df, now)
            total == Cardinality(failing)
        IN  IF missing # {}
            THEN /\ Rejected(verdict)
                 /\ verdict.message.template = "Missing required columns: {}"
                 /\ Members(verdict.message.value) = missing
            ELSE IF Len(df.rows) = 0
            THEN verdict = Invalid("No data found in CSV")
            ELSE /\ Accepted(verdict) = (failing = {})
                 /\ failing # {} =>
                       /\ verdict.total_errors = total
                       /\ Len(verdict.errors) = (IF total < 10 THEN total ELSE 10)
                       /\ \A k \in 1..Len(verdict.errors) :
                             LET i == NthOf(failing, k)
                                 v == validate_entry_data(RowEntry(df, i), now)
                             IN  /\ verdict.errors[k].row = i
                                 /\ "message" \in DOMAIN v =>
                                       verdict.errors[k].text = v.message

\* More failing rows than errors listed.
C20_Witness ==
    /\ validator = "validate_csv_data"
    /\ Rejected(verdict)
    /\ "total_errors" \in DOMAIN verdict
    /\ verdict.total_errors = 11
    /\ Len(verdict.errors) = 10
    /\ verdict.errors[10].row = 10

\* The warnings of the rows among the first n that pass validate_entry_data,
\* in row order, each with its row's number.
RECURSIVE PassingWarnings(_, _, _)
PassingWarnings(df, n, now) ==
    IF n = 0 THEN <<>>
    ELSE LET v == validate_entry_data(RowEntry(df, n), now)
             own == IF Accepted(v) /\ "warnings" \in DOMAIN v
                    THEN [k \in 1..Len(v.warnings) |-> RowMessage(n, v.warnings[k])]
                    ELSE <<>>
         IN  PassingWarnings(df, n - 1, now) \o own

\* C21: when the rows that pass validate_entry_data carry warnings, the
\* verdict of validate_csv_data has total_warnings, the number of all of
\* them, and warnings, the first min(20, total_warnings) of them in row
\* order, whether or not another row of the batch fails.
C21_CsvWarnings ==
    validator = "validate_csv_data" =>
        LET df == args[1]
            now == args[2]
            missing == { c \in { required_columns[i] : i \in 1..Len(required_columns) } :
                            \A i \in 1..Len(df.columns) : df.columns[i] # c }
            expected == PassingWarnings(df, Len(df.rows), now)
        IN  (missing = {} /\ expected # <<>>) =>
                /\ "warnings" \in DOMAIN verdict
                /\ "total_warnings" \in DOMAIN verdict
                /\ verdict.total_warnings = Len(expected)
                /\ verdict.warnings =
                      SubSeq(expected, 1, IF Len(expected) < 20 THEN Len(expected) ELSE 20)

\* The same for the batches none of whose rows fails.
C21_NoFailingRow ==
    validator = "validate_csv_data" =>
        LET df == args[1]
            now == args[2]
            missing == { c \in { required_columns[i] : i \in 1..Len(required_columns) } :
                            \A i \in 1..Len(df.columns) : df.columns[i] # c }
            expected == PassingWarnings(df, Len(df.rows), now)
        IN  (missing = {} /\ expected # <<>> /\ FailingRows(df, now) = {}) =>
                /\ "warnings" \in DOMAIN verdict
                /\ "total_warnings" \in DOMAIN verdict
                /\ verdict.total_warnings = Len(expected)
                /\ verdict.warnings =
                      SubSeq(expected, 1, IF Len(expected) < 20 THEN Len(expected) ELSE 20)

\* More warnings than the verdict lists.
C21_ManyWarnings ==
    /\ validator = "validate_csv_data"
    /\ "total_warnings" \in DOMAIN verdict
    /\ verdict.total_warnings > Len(verdict.warnings)

\* The characters a person id may hold.
IdCharacters == Letters \cup Digits \cup { "_", "-" }

\* C22: validate_person_id accepts exactly the texts of 2 to 50 characters
\* all of which are letters, digits, underscores or hyphens; a value that is
\* no text, an empty text and a text with whitespace anywhere are rejected.
C22_PersonId ==
    validator = "validate_person_id" =>
        LET id == args[1]
        IN  Accepted(verdict) =
                /\ id.k = "str"
                /\ Len(id.s) >= 2
                /\ Len(id.s) <= 50
                /\ \A i \in 1..Len(id.s) : id.s[i] \in IdCharacters

\* The same for the ids that neither start nor end with whitespace.
C22_StrippedPersonId ==
    (validator = "validate_person_id" /\ Strip(args[1].s) = args[1].s) =>
        LET id == args[1]
        IN  Accepted(verdict) =
                /\ id.k = "str"
                /\ Len(id.s) >= 2
                /\ Len(id.s) <= 50
                /\ \A i \in 1..Len(id.s) : id.s[i] \in IdCharacters

\* C23: validate_heart_rate accepts exactly the numbers from 30 to 200, both
\* included.
C23_HeartRate ==
    validator = "validate_heart_rate" =>
        Accepted(verdict) = (IsValue(args[1]) /\ Within(args[1], 30, 200))

\* The same for the values that are not NaN.
C23_HeartRateOfNumbers ==
    (validator = "validate_heart_rate" /\ args[1].k # "nan") =>
        Accepted(verdict) = (IsValue(args[1]) /\ Within(args[1], 30, 200))

\* Two entries have the same person_id and timestamp.
SameKey(e1, e2) ==
    e1.person_id = e2.person_id /\ e1.timestamp = e2.timestamp

\* C24: of two add_entry calls for the same key that do not overlap, the
\* second returns false: they do not both return true.
C24_SerializedDuplicate ==
    \A c, d \in Callers :
        ( /\ c # d
          /\ calls[c].pc = "done" /\ calls[d].pc = "done"
          /\ calls[c].alone /\ calls[d].alone
          /\ SameKey(calls[c].entry_data, calls[d].entry_data) )
        => ~(calls[c].ret /\ calls[d].ret)

\* Two overlapping calls for the same key have both passed the duplicate
\* check before either has written, and then both have returned true.
C24_BothPassedCheck ==
    \E c, d \in Callers :
        /\ c # d
        /\ calls[c].pc = "checked" /\ calls[d].pc = "checked"
        /\ SameKey(calls[c].entry_data, calls[d].entry_data)

C24_BothReturnedTrue ==
    \E c, d \in Callers :
        /\ c # d
        /\ calls[c].pc = "done" /\ calls[d].pc = "done"
        /\ ~calls[c].alone /\ ~calls[d].alone
        /\ calls[c].ret /\ calls[d].ret
        /\ SameKey(calls[c].entry_data, calls[d].entry_data)

\* C25: an add_entry that returns true appends: the dataset grows by one
\* row, the new record is its last row, and every row it had keeps its
\* position and its contents.
C25_Appends ==
    [][ (op' = "add_entry" /\ ret' = TRUE)
            => /\ Len(csv_file'.rows) = Len(csv_file.rows) + 1
               /\ csv_file'.rows[Len(csv_file'.rows)] =
                     [entry_data' EXCEPT
                        !.person_id = TextOf(entry_data'.person_id),
                        !.notes = TextOf(entry_data'.notes)]
               /\ \A j \in 1..Len(csv_file.rows) :
                     j <= Len(csv_file'.rows) /\ csv_file'.rows[j] = csv_file.rows[j] ]_vars

\* The positions of the rows a call of operation o with position i and
\* person p is asked to remove or to change.
Targets(file, o, i, p) ==
    IF o \in { "update_entry", "delete_entry" }
    THEN { j \in 1..Len(file.rows) : j = i + 1 }
    ELSE IF o = "delete_person_data"
    THEN { j \in 1..Len(file.rows) : file.rows[j].person_id = p }
    ELSE {}

\* C26: after add_entry, update_entry, delete_entry or delete_person_data,
\* a failed read or write included, every row that was on disk before the
\* call and is not the call's target is still on disk.
C26_OtherRowsKept ==
    [][ op' \in { "add_entry", "update_entry", "delete_entry", "delete_person_data" }
            => LET kept == (1..Len(csv_file.rows))
                              \ Targets(csv_file, op', index', person_id')
               IN  \A j \in kept :
                      Count(csv_file'.rows, csv_file.rows[j]) >=
                         Cardinality({ k \in kept :
                                         csv_file.rows[k] = csv_file.rows[j] }) ]_vars

\* The same for the calls whose read and write do not fail.
C26_OtherRowsKeptWithoutFault ==
    [][ ( /\ op' \in { "add_entry", "update_entry", "delete_entry",
                       "delete_person_data" }
          /\ fault' = "none" )
            => LET kept == (1..Len(csv_file.rows))
                              \ Targets(csv_file, op', index', person_id')
               IN  \A j \in kept :
                      Count(csv_file'.rows, csv_file.rows[j]) >=
                         Cardinality({ k \in kept :
                                         csv_file.rows[k] = csv_file.rows[j] }) ]_vars

\* C27: two overlapping add_entry calls for different keys that both return
\* true leave both records in the dataset.
C27_BothRecordsKept ==
    \A c, d \in Callers :
        ( /\ c # d
          /\ calls[c].pc = "done" /\ calls[d].pc = "done"
          /\ ~calls[c].alone /\ ~calls[d].alone
          /\ calls[c].ret /\ calls[d].ret
          /\ ~SameKey(calls[c].entry_data, calls[d].entry_data) )
        => /\ HoldsKey(csv_file, calls[c].entry_data)
           /\ HoldsKey(csv_file, calls[d].entry_data)

\* C27, as the code has it: after two overlapping add_entry calls for
\* different keys that both returned true, the dataset is the rows one of the
\* two calls loaded followed by that call's record; a record the other call
\* wrote after that load is not in it.
C27_LastWriterWins ==
    \A c, d \in Callers :
        ( /\ c # d
          /\ calls[c].pc = "done" /\ calls[d].pc = "done"
          /\ ~calls[c].alone /\ ~calls[d].alone
          /\ calls[c].ret /\ calls[d].ret
          /\ ~SameKey(calls[c].entry_data, calls[d].entry_data) )
        => \E w \in { c, d } :
              LET n == Len(csv_file.rows)
              IN  /\ n = Len(calls[w].df.rows) + 1
                  /\ csv_file.rows[n].person_id = TextOf(calls[w].entry_data.person_id)
                  /\ csv_file.rows[n].timestamp = calls[w].entry_data.timestamp

\* Both calls returned true and the record of one of them is gone.
C27_Witness ==
    \E c, d \in Callers :
        /\ c # d
        /\ calls[c].pc = "done" /\ calls[d].pc = "done"
        /\ ~calls[c].alone /\ ~calls[d].alone
        /\ calls[c].ret /\ calls[d].ret
        /\ ~SameKey(calls[c].entry_data, calls[d].entry_data)
        /\ ~HoldsKey(csv_file, calls[c].entry_data)
        /\ HoldsKey(csv_file, calls[d].entry_data)

\* C28: load_data, get_person_data, get_summary_stats, export_data, a
\* backup_data to a path other than the backing file's and the constructor
\* over the backing file leave the text of the backing file as it was.
C28_ReadOnly ==
    [][ ( \/ op' \in { "load_data", "get_person_data", "get_summary_stats",
                       "export_data", "__init__" }
          \/ op' = "backup_data" /\ backup_filename' # csv_path )
            => csv_file' = csv_file ]_vars

\* The constructor has run over a backing file with records of which a
\* backup was made.
C28_Witness ==
    /\ op = "__init__"
    /\ Len(csv_file.rows) > 0
    /\ backup_file # NoFile
    /\ backup_file = csv_file
====
